---- MODULE Spec2Model ----
(***************************************************************************)
(* HankiesInTheWind.tsx: a React component that animates three layered     *)
(* wave-interference fields with three.js.  The file holds two variants of *)
(* the component: the full one (lines 1-479: animation-speed slider, wand  *)
(* mode, collapsible controls) and a simpler one (lines 480-869).          *)
(*                                                                         *)
(* Three specifications are given.                                         *)
(*   Spec      the component's life: render, effect run, frames, events,   *)
(*             effect re-run on a dependency change, unmount and cleanup.  *)
(*   SpecLoop  one effect instance whose frame loop keeps running, with    *)
(*             weak fairness on the frame callback.                        *)
(*   SpecField the pure functions createWaveSources and                    *)
(*             createInterferenceField applied to bounded inputs.          *)
(*                                                                         *)
(* Numbers are fixed point: frequency and amplitude in 1/100, time and     *)
(* animationSpeed in 1/10000, coordinates, angles (radians) and heights in *)
(* 1/1000.  The accumulation of the height (height += ...) is a binary     *)
(* floating-point addition; it is modelled with round-to-nearest-even on a *)
(* mantissa of MantissaBits bits instead of the 53 bits of a double.       *)
(***************************************************************************)
EXTENDS Integers, Sequences, FiniteSets, TLC

\* ------------------------------------------------------------------------
\* Program constants (lines 24-27 and 500-502; line 702 for the fixed speed)
DEFAULT_FREQUENCY == 250
DEFAULT_AMPLITUDE == 40
DEFAULT_NUM_SOURCES == 5
DEFAULT_ANIMATION_SPEED == 6

\* Bounds of the model
MaxFrames == 3
MaxEffects == 3
MaxLoopFrames == 9

\* Slider positions tried (every slider keeps its min..max range of the JSX)
FrequencyValues == {100, DEFAULT_FREQUENCY}
AmplitudeValues == {DEFAULT_AMPLITUDE, 100}
NumSourcesValues == {2, DEFAULT_NUM_SOURCES}
AnimationSpeedValues == {DEFAULT_ANIMATION_SPEED, 1000}

\* Display surfaces tried: window.innerWidth and the container's rectangle
Viewports ==
  { [innerWidth |-> 600, devicePixelRatio |-> 3,
     left |-> 0, top |-> 50, width |-> 600, height |-> 400],
    [innerWidth |-> 1000, devicePixelRatio |-> 1,
     left |-> 0, top |-> 50, width |-> 1000, height |-> 500] }

\* Pointer / touch points tried (clientX, clientY)
ClientPoints == { [clientX |-> 150, clientY |-> 150] }

Variants == {"full", "simple"}

VARIABLES
  variant,            \* which of the two components of the file is running
  frequency,          \* useState, line 28
  amplitude,          \* useState, line 29
  numSources,         \* useState, line 30
  animationSpeed,     \* useState, line 31 (the literal 0.0006 in the simple variant)
  mouseSource,        \* useState, line 18: {} is null, {s} a WaveSourceProps
  wandMode,           \* useState, line 19
  sparklePos,         \* useState, line 21: {} is null
  controlsCollapsed,  \* useState, line 33
  viewport,           \* the display surface
  containerRef,       \* containerRef.current is non-null
  phase,              \* "rendered", "mounted", "unmounting", "unmounted"
  effectPending,      \* a commit changed a dependency of the effect of line 88
  fx,                 \* the running instance of the effect of line 88
  groups,             \* the LineGroups built by that instance, by id
  pending,            \* frame callbacks requested and neither run nor cancelled
  lastEvent,          \* the last pointer or touch event dispatched
  fpc,                \* SpecField: which function was applied last
  fin,                \* SpecField: the inputs
  sources,            \* SpecField: result of createWaveSources
  heightMap,          \* SpecField: the height grid
  lines,              \* SpecField: the lines of the LineGroup
  parts               \* SpecField: the grids of the two parts of a source list

reactVars == <<frequency, amplitude, numSources, animationSpeed, mouseSource,
               wandMode, sparklePos, controlsCollapsed>>
fieldVars == <<fpc, fin, sources, heightMap, lines, parts>>
lifeVars == <<variant, reactVars, viewport, containerRef, phase, effectPending,
              fx, groups, pending, lastEvent>>
vars == <<lifeVars, fieldVars>>

\* ------------------------------------------------------------------------
\* Arithmetic
Abs(v) == IF v < 0 THEN -v ELSE v

\* Math.PI in 1/1000 (lines 103, 53)
PI == 3142
TWO_PI == 6283

RECURSIVE Newton(_, _)
Newton(n, g) ==
  LET h == (g + n \div g) \div 2
  IN  IF h >= g THEN g ELSE Newton(n, h)

\* Math.sqrt: n in 1/1000000, result in 1/1000
Sqrt(n) == IF n <= 0 THEN 0 ELSE Newton(n, n)

\* Math.sin on [0, PI], argument in 1/1000, result in 1/1000
\* (Bhaskara's rational approximation, evaluated in 1/100 radians)
SinHalf(r) ==
  LET c == r \div 10
      h == PI \div 10
      p == c * (h - c)
  IN  (16000 * p) \div (5 * h * h - 4 * p)

\* Math.sin, argument in 1/1000 radians
Sin(x) ==
  LET r == x % TWO_PI
  IN  IF r <= PI THEN SinHalf(r) ELSE -SinHalf(r - PI)

\* Math.cos
Cos(x) == Sin(x + PI \div 2)

RECURSIVE SquareTimes(_, _)
SquareTimes(a, k) == IF k = 0 THEN a ELSE SquareTimes((a * a) \div 1000, k - 1)

\* Math.exp for an argument x <= 0 in 1/1000: (1 + x/64)^64
Exp(x) ==
  LET a == 1000 + x \div 64
  IN  IF a <= 0 THEN 0 ELSE SquareTimes(a, 6)

\* Width of the mantissa of the modelled floating-point numbers
MantissaBits == 8

RECURSIVE BitLength(_)
BitLength(a) == IF a = 0 THEN 0 ELSE 1 + BitLength(a \div 2)

RECURSIVE Pow2(_)
Pow2(k) == IF k <= 0 THEN 1 ELSE 2 * Pow2(k - 1)

\* Rounding of a real result to the nearest floating-point number, ties to even
Fl(v) ==
  LET a == Abs(v)
      e == BitLength(a)
      q == Pow2(e - MantissaBits)
      m == a \div q
      r == a % q
      up == (2 * r > q) \/ (2 * r = q /\ m % 2 = 1)
      res == (IF up THEN m + 1 ELSE m) * q
  IN  IF v < 0 THEN -res ELSE res

\* The floating-point numbers: the values Fl leaves alone
IsFloat(v) == Fl(v) = v

\* a + b and a - b of two numbers
FAdd(a, b) == Fl(a + b)
FSub(a, b) == Fl(a - b)

\* ------------------------------------------------------------------------
\* createWaveSources (lines 98-130), the closure's state passed as cfg

\* the i-th source of the ring, lines 103-115
RingSource(cfg, time, scale, i) ==
  LET count == cfg.numSources
      angle == (i * TWO_PI) \div count
      radius == (scale * (1000 + (Sin(angle * 3) * 2) \div 10)) \div 1000
  IN  [ position |-> << (Cos(angle) * radius) \div 1000, 0, (Sin(angle) * radius) \div 1000 >>,
        frequency |-> cfg.frequency + Sin(angle * 2) \div 10,
        amplitude |-> cfg.amplitude + Cos(angle) \div 100,
        phase |-> (time * 3) \div 10 + angle ]

\* the source at the centre, lines 118-123
CenterSource(cfg, time) ==
  [ position |-> <<0, 0, 0>>,
    frequency |-> cfg.frequency + 100,
    amplitude |-> cfg.amplitude + 10,
    phase |-> (time * 4) \div 10 ]

\* lines 125-127
PointerSources(cfg) ==
  IF cfg.mouseSource # {} THEN << CHOOSE s \in cfg.mouseSource : TRUE >> ELSE << >>

\* mutant of createWaveSources: the pointer source is put first
createWaveSourcesPointerFirst(cfg, time, scale) ==
  PointerSources(cfg)
    \o [ k \in 1..cfg.numSources |-> RingSource(cfg, time, scale, k - 1) ]
    \o << CenterSource(cfg, time) >>

createWaveSources(cfg, time, scale) ==
  [ k \in 1..cfg.numSources |-> RingSource(cfg, time, scale, k - 1) ]
    \o << CenterSource(cfg, time) >>
    \o PointerSources(cfg)

\* ------------------------------------------------------------------------
\* createInterferenceField (lines 132-242)

\* size / resolution, line 133
StepOf(size, resolution) == size \div resolution

\* (i * step) - (size / 2), lines 138, 141, 183, 185, 198, 200, 211, 212
Coord(i, size, resolution) == i * StepOf(size, resolution) - size \div 2

\* one source's contribution at (x, z), lines 145-148
Term(s, x, z, time) ==
  LET dx == x - s.position[1]
      dz == z - s.position[3]
      distance == Sqrt(dx * dx + dz * dz)
      arg == (distance * s.frequency) \div 100 - (time * 5) \div 10 + s.phase
  IN  Fl((Sin(arg) * s.amplitude * Exp(-((distance * 3) \div 10))) \div 100000)

\* mutant of Accumulate: height = ... in place of height += ...
AccumulateOverwrite(height, term) == Fl(term)

\* height += ..., line 148
Accumulate(height, term) == FAdd(height, term)

\* sources.forEach from the height reached so far, lines 144-149
RECURSIVE SumFrom(_, _, _, _, _)
SumFrom(height, srcs, x, z, time) ==
  IF srcs = << >> THEN height
  ELSE SumFrom(Accumulate(height, Term(Head(srcs), x, z, time)), Tail(srcs), x, z, time)

\* let height = 0 and the loop over the sources, lines 142-149
HeightAt(srcs, x, z, time) == SumFrom(0, srcs, x, z, time)

\* the height grid, lines 134-153
HeightMapOf(srcs, size, resolution, time) ==
  [ i \in 0..resolution |->
      [ j \in 0..resolution |->
          HeightAt(srcs, Coord(i, size, resolution), Coord(j, size, resolution), time) ] ]

\* mutant of isMouseSource: dist < step
isMouseSourceWithinStep(mouse, step, x, z) ==
  IF mouse = {} THEN FALSE
  ELSE LET m == CHOOSE s \in mouse : TRUE
           mx == m.position[1]
           mz == m.position[3]
           dist == Sqrt((x - mx) * (x - mx) + (z - mz) * (z - mz))
       IN  dist < step

\* isMouseSource, lines 173-178
isMouseSource(mouse, step, x, z) ==
  IF mouse = {} THEN FALSE
  ELSE LET m == CHOOSE s \in mouse : TRUE
           mx == m.position[1]
           mz == m.position[3]
           dist == Sqrt((x - mx) * (x - mx) + (z - mz) * (z - mz))
       IN  2 * dist < 3 * step

MaterialFor(mouse, step, x, z) ==
  IF isMouseSource(mouse, step, x, z) THEN "mouseMaterial" ELSE "linesMaterial"

\* mutant of RowLines: the loop stops at i < resolution
RowLinesShort(hm, mouse, size, resolution) ==
  [ k \in 1..resolution |->
      LET i == k - 1
          x == Coord(i, size, resolution)
      IN  [ kind |-> "row", i |-> i, j |-> -1,
            points |-> [ n \in 1..(resolution + 1) |->
                           << x, hm[i][n - 1], Coord(n - 1, size, resolution) >> ],
            material |-> MaterialFor(mouse, StepOf(size, resolution), x, 0) ] ]

\* one line per i, lines 180-193
RowLines(hm, mouse, size, resolution) ==
  [ k \in 1..(resolution + 1) |->
      LET i == k - 1
          x == Coord(i, size, resolution)
      IN  [ kind |-> "row", i |-> i, j |-> -1,
            points |-> [ n \in 1..(resolution + 1) |->
                           << x, hm[i][n - 1], Coord(n - 1, size, resolution) >> ],
            material |-> MaterialFor(mouse, StepOf(size, resolution), x, 0) ] ]

\* one line per j, lines 195-207
ColumnLines(hm, mouse, size, resolution) ==
  [ k \in 1..(resolution + 1) |->
      LET j == k - 1
          z == Coord(j, size, resolution)
      IN  [ kind |-> "column", i |-> -1, j |-> j,
            points |-> [ n \in 1..(resolution + 1) |->
                           << Coord(n - 1, size, resolution), hm[n - 1][j], z >> ],
            material |-> MaterialFor(mouse, StepOf(size, resolution), 0, z) ] ]

\* heightDiff > 0.2, lines 213-217.  The division by 4 and the comparison
\* with 0.2 are exact scalings by a power of two, so the test is taken on
\* four times the difference.
TearThreshold == 200

HeightDiff4(hm, i, j) ==
  LET s == FAdd(FAdd(FAdd(hm[i - 1][j], hm[i + 1][j]), hm[i][j - 1]), hm[i][j + 1])
  IN  Abs(FSub(4 * hm[i][j], s))

\* mutant of IsTear: heightDiff >= 0.2
IsTearAtLeast(hm, i, j) == HeightDiff4(hm, i, j) >= 4 * TearThreshold

IsTear(hm, i, j) == HeightDiff4(hm, i, j) > 4 * TearThreshold

\* the two diagonals of one node, lines 218-236
TearPair(hm, mouse, size, resolution, i, j) ==
  LET step == StepOf(size, resolution)
      x == Coord(i, size, resolution)
      z == Coord(j, size, resolution)
      height == hm[i][j]
      half == step \div 2
      mat == MaterialFor(mouse, step, x, z)
  IN  << [ kind |-> "tear", i |-> i, j |-> j,
           points |-> << <<x - half, height, z - half>>, <<x + half, height, z + half>> >>,
           material |-> mat ],
         [ kind |-> "tear", i |-> i, j |-> j,
           points |-> << <<x - half, height, z + half>>, <<x + half, height, z - half>> >>,
           material |-> mat ] >>

\* the loops over the inner nodes, lines 209-239, from node (i, j) on
RECURSIVE TearLines(_, _, _, _, _, _)
TearLines(hm, mouse, size, resolution, i, j) ==
  IF i >= resolution THEN << >>
  ELSE IF j >= resolution THEN TearLines(hm, mouse, size, resolution, i + 1, 1)
  ELSE (IF IsTear(hm, i, j) THEN TearPair(hm, mouse, size, resolution, i, j) ELSE << >>)
         \o TearLines(hm, mouse, size, resolution, i, j + 1)

\* the children of linesGroup in the order they are added, lines 169-241
FieldLines(hm, mouse, size, resolution) ==
  RowLines(hm, mouse, size, resolution)
    \o ColumnLines(hm, mouse, size, resolution)
    \o TearLines(hm, mouse, size, resolution, 1, 1)

\* ------------------------------------------------------------------------
\* The effect of line 88 (line 513 in the simple variant)

Min(a, b) == IF a < b THEN a ELSE b

RECURSIVE Gcd(_, _)
Gcd(a, b) == IF b = 0 THEN a ELSE Gcd(b, a % b)

\* width / height (lines 250, 321), kept as a fraction in lowest terms
Aspect(width, height) ==
  LET g == Gcd(width, height)
  IN  IF g = 0 THEN <<width, height>> ELSE <<width \div g, height \div g>>

\* the state the effect's functions close over: its dependency list, line 424
Closure ==
  [ frequency |-> frequency, amplitude |-> amplitude, numSources |-> numSources,
    animationSpeed |-> animationSpeed, mouseSource |-> mouseSource, wandMode |-> wandMode ]

\* no effect instance yet
NoEffect ==
  [ status |-> "none", run |-> 0, cfg |-> Closure, time |-> 0, frames |-> 0, children |-> << >>,
    lineGroups |-> << >>, animationFrameId |-> 0, aspect |-> <<0, 0>>, size |-> <<0, 0>>,
    pixelRatio |-> 0, rendererDisposed |-> FALSE, canvasAttached |-> FALSE,
    listeners |-> FALSE, staleAtBuild |-> << >>, resized |-> FALSE, canvases |-> 0 ]

\* lines 91-96 and 244-273: scene, camera, renderer, mainGroup, time = 0;
\* canvases counts the canvas elements in the container, of which there were
\* inContainer before container.appendChild(renderer.domElement), line 255
Setup(cfg, vp, run, inContainer) ==
  [ status |-> "live", run |-> run, cfg |-> cfg, time |-> 0, frames |-> 0, children |-> << >>,
    lineGroups |-> << >>, animationFrameId |-> 0,
    aspect |-> Aspect(vp.width, vp.height), size |-> <<vp.width, vp.height>>,
    pixelRatio |-> Min(vp.devicePixelRatio, 2), rendererDisposed |-> FALSE,
    canvasAttached |-> TRUE, listeners |-> FALSE, staleAtBuild |-> << >>,
    resized |-> FALSE, canvases |-> inContainer + 1 ]

RemoveAt(seq, k) == SubSeq(seq, 1, k - 1) \o SubSeq(seq, k + 1, Len(seq))

\* mainGroup.children.forEach(child => { dispose; mainGroup.remove(child) }),
\* lines 279-287: forEach visits the indices 0..len-1 of the array as it is
\* when the index is reached, and remove() splices the visited child out of
\* that same array.  k is the next index (from 1), len the length at the start.
RECURSIVE DisposeLoop(_, _, _, _)
DisposeLoop(children, k, len, visited) ==
  IF k > len THEN [children |-> children, visited |-> visited]
  ELSE IF k > Len(children) THEN DisposeLoop(children, k + 1, len, visited)
  ELSE DisposeLoop(RemoveAt(children, k), k + 1, len, visited \cup {children[k]})

\* mutant of DisposeChildren: only the first child is disposed and removed
DisposeFirstChild(children) ==
  IF children = << >> THEN [children |-> children, visited |-> {}]
  ELSE [children |-> Tail(children), visited |-> {Head(children)}]

DisposeChildren(children) == DisposeLoop(children, 1, Len(children), {})

\* the three layers of a frame: time offset, scale of the sources, size
\* (lines 291-305)
Layers ==
  << [offset |-> 0, scale |-> 1500, size |-> 6000],
     [offset |-> 3300, scale |-> 800, size |-> 3200],
     [offset |-> 6600, scale |-> 800, size |-> 3200] >>

\* The LineGroup of one layer.  The lines of a 32 x 32 grid are not kept here
\* (FieldLines gives them); the group keeps what the frame loop does to it.
NewGroup(cfg, time, frame, layer) ==
  LET t == time + Layers[layer].offset
      srcs == createWaveSources(cfg, t, Layers[layer].scale)
  IN  [ frame |-> frame, layer |-> layer, time |-> t,
        sourceCount |-> Len(srcs),
        pointer |-> IF cfg.mouseSource # {} THEN {srcs[Len(srcs)]} ELSE {},
        geometryDisposed |-> FALSE, materialDisposed |-> FALSE ]

\* time += animationSpeed, line 277; time += 0.0006, line 702
TimeStep(e) == IF variant = "full" THEN e.cfg.animationSpeed ELSE DEFAULT_ANIMATION_SPEED

\* the handle requestAnimationFrame returns for the instance's next request
NextHandle(e) == e.frames + 1

\* animate, lines 275-311: the new state of the instance, of its LineGroups
\* and of the requested frame callbacks
AnimateFrame(e, gs, pend) ==
  LET handle == NextHandle(e)
      loop == DisposeChildren(e.children)
      disposed == [ g \in 1..Len(gs) |->
                      IF g \in loop.visited
                      THEN [gs[g] EXCEPT !.geometryDisposed = TRUE, !.materialDisposed = TRUE]
                      ELSE gs[g] ]
      time == e.time + TimeStep(e)
      frame == e.frames + 1
      built == [ l \in 1..3 |-> NewGroup(e.cfg, time, frame, l) ]
      ids == [ l \in 1..3 |-> Len(gs) + l ]
  IN  [ fx |-> [e EXCEPT !.animationFrameId = handle,
                         !.time = time,
                         !.frames = frame,
                         !.staleAtBuild = loop.children,
                         !.lineGroups = ids,
                         !.children = loop.children \o ids],
        groups |-> disposed \o built,
        pending |-> pend \cup {[id |-> handle, owner |-> "live"]} ]

\* the effect body, lines 88-405: setup, the first call of animate (line 313)
\* and the listeners; nothing when the container is absent (line 89)
EffectBody(pend, run, inContainer) ==
  IF ~containerRef
  THEN [fx |-> [NoEffect EXCEPT !.canvases = inContainer], groups |-> << >>, pending |-> pend]
  ELSE LET r == AnimateFrame(Setup(Closure, viewport, run, inContainer), << >>, pend)
       IN  [r EXCEPT !.fx.listeners = TRUE]

\* mutant of CancelFrame: the handle of the first request is cancelled, as if
\* animate did not store the handle of each new request
CancelFirstFrame(e, pend) ==
  IF e.animationFrameId # 0 THEN pend \ {[id |-> 1, owner |-> "live"]} ELSE pend

\* cancelAnimationFrame(animationFrameId), lines 409-411
CancelFrame(e, pend) ==
  IF e.animationFrameId # 0
  THEN pend \ {[id |-> e.animationFrameId, owner |-> "live"]}
  ELSE pend

\* mutant of CleanupEffect: the canvas is left in the container
CleanupEffectKeepsCanvas(e, pend) ==
  [ fx |-> [e EXCEPT !.status = "cleaned",
                     !.listeners = FALSE,
                     !.rendererDisposed = TRUE],
    pending |-> CancelFrame(e, pend) ]

\* the cleanup the effect returns, lines 407-423
CleanupEffect(e, pend) ==
  [ fx |-> [e EXCEPT !.status = "cleaned",
                     !.listeners = FALSE,
                     !.rendererDisposed = TRUE,
                     !.canvasAttached = FALSE,
                     !.canvases = IF e.canvasAttached THEN e.canvases - 1 ELSE e.canvases],
    pending |-> CancelFrame(e, pend) ]

\* callbacks an instance leaves behind belong to no running instance
Orphaned(pend) == { [id |-> c.id, owner |-> "dead"] : c \in pend }

\* checkMobile, lines 76-82
checkMobile(vp) == vp.innerWidth < 700

\* ------------------------------------------------------------------------
\* The component's life

FieldIdle ==
  /\ fpc = "idle"
  /\ fin = << >>
  /\ sources = << >>
  /\ heightMap = << >>
  /\ lines = << >>
  /\ parts = << >>

\* the state of the first render: useState initial values, no effect run yet
Init ==
  /\ variant \in Variants
  /\ frequency = DEFAULT_FREQUENCY
  /\ amplitude = DEFAULT_AMPLITUDE
  /\ numSources = DEFAULT_NUM_SOURCES
  /\ animationSpeed = DEFAULT_ANIMATION_SPEED
  /\ mouseSource = {}
  /\ wandMode = FALSE
  /\ sparklePos = {}
  /\ controlsCollapsed = FALSE
  /\ viewport \in Viewports
  /\ containerRef = TRUE
  /\ phase = "rendered"
  /\ effectPending = TRUE
  /\ fx = NoEffect
  /\ groups = << >>
  /\ pending = {}
  /\ lastEvent = "none"
  /\ FieldIdle

\* a state update is rendered and committed once the effects of the previous
\* commit have run
CanUpdate == phase = "mounted" /\ ~effectPending

\* the listeners of the running effect instance are attached
Listening == fx.status = "live" /\ fx.listeners

\* the effects of the first commit: checkMobile() (line 83) and the body of
\* the effect of line 88
useEffectMount ==
  /\ phase = "rendered"
  /\ LET r == EffectBody(pending, 1, fx.canvases)
     IN  /\ fx' = r.fx
         /\ groups' = r.groups
         /\ pending' = r.pending
  /\ controlsCollapsed' = IF variant = "full" THEN checkMobile(viewport) ELSE controlsCollapsed
  /\ phase' = "mounted"
  /\ effectPending' = FALSE
  /\ UNCHANGED <<variant, frequency, amplitude, numSources, animationSpeed, mouseSource,
                 wandMode, sparklePos, viewport, containerRef, lastEvent, fieldVars>>

\* a dependency of line 424 changed: the cleanup of the running instance,
\* then the body again with the values of the last render
useEffectRerun ==
  /\ phase = "mounted"
  /\ effectPending
  /\ fx.run < MaxEffects
  /\ LET c == IF fx.status = "live" THEN CleanupEffect(fx, pending)
                                     ELSE [fx |-> fx, pending |-> pending]
         r == EffectBody(Orphaned(c.pending), fx.run + 1, c.fx.canvases)
     IN  /\ fx' = r.fx
         /\ groups' = r.groups
         /\ pending' = r.pending
  /\ effectPending' = FALSE
  /\ UNCHANGED <<variant, reactVars, viewport, containerRef, phase, lastEvent, fieldVars>>

\* a requested frame callback runs: animate, lines 275-311.  Callbacks of an
\* instance that is gone would work on that instance's own scene, which is
\* not kept; they stay in pending.
animate ==
  /\ fx.status = "live"
  /\ fx.frames < MaxFrames
  /\ \E c \in pending :
       /\ c.owner = "live"
       /\ LET r == AnimateFrame(fx, groups, pending \ {c})
          IN  /\ fx' = r.fx
              /\ groups' = r.groups
              /\ pending' = r.pending
  /\ UNCHANGED <<variant, reactVars, viewport, containerRef, phase, effectPending,
                 lastEvent, fieldVars>>

\* the frequency slider, line 458
setFrequency ==
  /\ CanUpdate
  /\ \E v \in FrequencyValues :
       /\ frequency' = v
       /\ effectPending' = (v # frequency)
  /\ UNCHANGED <<variant, amplitude, numSources, animationSpeed, mouseSource, wandMode,
                 sparklePos, controlsCollapsed, viewport, containerRef, phase, fx, groups,
                 pending, lastEvent, fieldVars>>

\* the amplitude slider, line 461
setAmplitude ==
  /\ CanUpdate
  /\ \E v \in AmplitudeValues :
       /\ amplitude' = v
       /\ effectPending' = (v # amplitude)
  /\ UNCHANGED <<variant, frequency, numSources, animationSpeed, mouseSource, wandMode,
                 sparklePos, controlsCollapsed, viewport, containerRef, phase, fx, groups,
                 pending, lastEvent, fieldVars>>

\* the sources slider, line 464
setNumSources ==
  /\ CanUpdate
  /\ \E v \in NumSourcesValues :
       /\ numSources' = v
       /\ effectPending' = (v # numSources)
  /\ UNCHANGED <<variant, frequency, amplitude, animationSpeed, mouseSource, wandMode,
                 sparklePos, controlsCollapsed, viewport, containerRef, phase, fx, groups,
                 pending, lastEvent, fieldVars>>

\* the animation speed slider, line 467 (the simple variant has none)
setAnimationSpeed ==
  /\ CanUpdate
  /\ variant = "full"
  /\ \E v \in AnimationSpeedValues :
       /\ animationSpeed' = v
       /\ effectPending' = (v # animationSpeed)
  /\ UNCHANGED <<variant, frequency, amplitude, numSources, mouseSource, wandMode,
                 sparklePos, controlsCollapsed, viewport, containerRef, phase, fx, groups,
                 pending, lastEvent, fieldVars>>

\* mutant of ResetConfig: the animation speed is not reset
ResetConfigWithoutSpeed ==
  [ frequency |-> DEFAULT_FREQUENCY,
    amplitude |-> DEFAULT_AMPLITUDE,
    numSources |-> DEFAULT_NUM_SOURCES,
    animationSpeed |-> animationSpeed ]

\* what handleReset sets: lines 35-40, and lines 507-511 without the speed
ResetConfig ==
  [ frequency |-> DEFAULT_FREQUENCY,
    amplitude |-> DEFAULT_AMPLITUDE,
    numSources |-> DEFAULT_NUM_SOURCES,
    animationSpeed |-> IF variant = "full" THEN DEFAULT_ANIMATION_SPEED ELSE animationSpeed ]

handleReset ==
  /\ CanUpdate
  /\ frequency' = ResetConfig.frequency
  /\ amplitude' = ResetConfig.amplitude
  /\ numSources' = ResetConfig.numSources
  /\ animationSpeed' = ResetConfig.animationSpeed
  /\ effectPending' = (<<frequency', amplitude', numSources', animationSpeed'>>
                         # <<frequency, amplitude, numSources, animationSpeed>>)
  /\ UNCHANGED <<variant, mouseSource, wandMode, sparklePos, controlsCollapsed, viewport,
                 containerRef, phase, fx, groups, pending, lastEvent, fieldVars>>

\* the wand button, line 451
toggleWandMode ==
  /\ CanUpdate
  /\ variant = "full"
  /\ wandMode' = ~wandMode
  /\ effectPending' = TRUE
  /\ UNCHANGED <<variant, frequency, amplitude, numSources, animationSpeed, mouseSource,
                 sparklePos, controlsCollapsed, viewport, containerRef, phase, fx, groups,
                 pending, lastEvent, fieldVars>>

\* the show / hide controls button, line 440
toggleControls ==
  /\ CanUpdate
  /\ variant = "full"
  /\ controlsCollapsed' = ~controlsCollapsed
  /\ UNCHANGED <<variant, frequency, amplitude, numSources, animationSpeed, mouseSource,
                 wandMode, sparklePos, viewport, containerRef, phase, effectPending, fx,
                 groups, pending, lastEvent, fieldVars>>

\* mutant of ResizedEffect: the aspect is taken as height / width
ResizedEffectInverted(e, vp) ==
  IF ~containerRef THEN e
  ELSE [e EXCEPT !.aspect = Aspect(vp.height, vp.width),
                 !.pixelRatio = Min(vp.devicePixelRatio, 2),
                 !.size = <<vp.width, vp.height>>,
                 !.resized = TRUE]

\* handleResize, lines 315-325 (resized notes that it went past line 316)
ResizedEffect(e, vp) ==
  IF ~containerRef THEN e
  ELSE [e EXCEPT !.aspect = Aspect(vp.width, vp.height),
                 !.pixelRatio = Min(vp.devicePixelRatio, 2),
                 !.size = <<vp.width, vp.height>>,
                 !.resized = TRUE]

\* a resize event of the window: the display surface changes, then the
\* listeners run: checkMobile (line 84) and handleResize (line 327)
resize ==
  /\ phase \in {"mounted", "unmounting"}
  /\ \E vp \in Viewports :
       /\ viewport' = vp
       /\ controlsCollapsed' =
            IF variant = "full" /\ phase = "mounted" THEN checkMobile(vp) ELSE controlsCollapsed
       /\ fx' = IF Listening THEN ResizedEffect(fx, vp) ELSE fx
  /\ controlsCollapsed' # controlsCollapsed => ~effectPending
  /\ UNCHANGED <<variant, frequency, amplitude, numSources, animationSpeed, mouseSource,
                 wandMode, sparklePos, containerRef, phase, effectPending, groups, pending,
                 lastEvent, fieldVars>>

\* the source a pointer or touch point sets: lines 332-344 (and 359-370,
\* 380-391); lines 757-769 with the fixed 3.5 and 0.5 in the simple variant
PointerSource(e, vp, pt) ==
  LET x == ((pt.clientX - vp.left) * 2000) \div vp.width - 1000
      y == -(((pt.clientY - vp.top) * 2000) \div vp.height - 1000)
      posX == x * 3
      posZ == y * 3
  IN  [ position |-> <<posX, 0, posZ>>,
        frequency |-> IF variant = "full" THEN e.cfg.frequency + 100 ELSE 350,
        amplitude |-> IF variant = "full" THEN e.cfg.amplitude + 10 ELSE 50,
        phase |-> 0 ]

\* setSparklePos of lines 345-347, 371-373, 392-394
SparkleAt(e, vp, pt) ==
  IF variant = "full" /\ e.cfg.wandMode
  THEN {[x |-> pt.clientX - vp.left, y |-> pt.clientY - vp.top]}
  ELSE sparklePos

\* the touch lists tried: no touch, one touch
TouchLists == {<< >>} \cup { <<pt>> : pt \in ClientPoints }

\* handlePointerMove, lines 330-348
handlePointerMove ==
  /\ CanUpdate
  /\ Listening
  /\ \E pt \in ClientPoints :
       IF ~containerRef
       THEN UNCHANGED <<mouseSource, sparklePos, effectPending>>
       ELSE /\ mouseSource' = {PointerSource(fx, viewport, pt)}
            /\ sparklePos' = SparkleAt(fx, viewport, pt)
            /\ effectPending' = TRUE
  /\ lastEvent' = "pointermove"
  /\ UNCHANGED <<variant, frequency, amplitude, numSources, animationSpeed, wandMode,
                 controlsCollapsed, viewport, containerRef, phase, fx, groups, pending,
                 fieldVars>>

\* handlePointerLeave, lines 349-352
handlePointerLeave ==
  /\ CanUpdate
  /\ Listening
  /\ mouseSource' = {}
  /\ sparklePos' = IF variant = "full" THEN {} ELSE sparklePos
  /\ effectPending' = (mouseSource # {})
  /\ lastEvent' = "pointerleave"
  /\ UNCHANGED <<variant, frequency, amplitude, numSources, animationSpeed, wandMode,
                 controlsCollapsed, viewport, containerRef, phase, fx, groups, pending,
                 fieldVars>>

\* mutant of TouchSets: an empty touch list clears the pointer source
TouchSetsClearsOnEmpty(touches) ==
  IF ~containerRef THEN UNCHANGED <<mouseSource, sparklePos, effectPending>>
  ELSE IF Len(touches) = 0
  THEN /\ mouseSource' = {}
       /\ sparklePos' = sparklePos
       /\ effectPending' = (mouseSource # {})
  ELSE /\ mouseSource' = {PointerSource(fx, viewport, touches[1])}
       /\ sparklePos' = SparkleAt(fx, viewport, touches[1])
       /\ effectPending' = TRUE

\* the body shared by handleTouchStart and handleTouchMove
TouchSets(touches) ==
  IF ~containerRef \/ Len(touches) = 0
  THEN UNCHANGED <<mouseSource, sparklePos, effectPending>>
  ELSE /\ mouseSource' = {PointerSource(fx, viewport, touches[1])}
       /\ sparklePos' = SparkleAt(fx, viewport, touches[1])
       /\ effectPending' = TRUE

\* handleTouchStart, lines 354-374
handleTouchStart ==
  /\ CanUpdate
  /\ Listening
  /\ \E touches \in TouchLists :
       /\ TouchSets(touches)
       /\ lastEvent' = IF Len(touches) = 0 THEN "touchstart0" ELSE "touchstart"
  /\ UNCHANGED <<variant, frequency, amplitude, numSources, animationSpeed, wandMode,
                 controlsCollapsed, viewport, containerRef, phase, fx, groups, pending,
                 fieldVars>>

\* handleTouchMove, lines 375-395
handleTouchMove ==
  /\ CanUpdate
  /\ Listening
  /\ \E touches \in TouchLists :
       /\ TouchSets(touches)
       /\ lastEvent' = IF Len(touches) = 0 THEN "touchmove0" ELSE "touchmove"
  /\ UNCHANGED <<variant, frequency, amplitude, numSources, animationSpeed, wandMode,
                 controlsCollapsed, viewport, containerRef, phase, fx, groups, pending,
                 fieldVars>>

\* handleTouchEnd, lines 396-400
handleTouchEnd ==
  /\ CanUpdate
  /\ Listening
  /\ mouseSource' = {}
  /\ sparklePos' = IF variant = "full" THEN {} ELSE sparklePos
  /\ effectPending' = (mouseSource # {})
  /\ lastEvent' = "touchend"
  /\ UNCHANGED <<variant, frequency, amplitude, numSources, animationSpeed, wandMode,
                 controlsCollapsed, viewport, containerRef, phase, fx, groups, pending,
                 fieldVars>>

\* the component is removed: React clears the ref when it detaches the
\* container; the effect's cleanup runs afterwards
unmount ==
  /\ CanUpdate
  /\ containerRef' = FALSE
  /\ phase' = "unmounting"
  /\ UNCHANGED <<variant, reactVars, viewport, effectPending, fx, groups, pending,
                 lastEvent, fieldVars>>

\* the cleanup of the effect at unmount, lines 407-423
cleanup ==
  /\ phase = "unmounting"
  /\ LET c == IF fx.status = "live" THEN CleanupEffect(fx, pending)
                                     ELSE [fx |-> fx, pending |-> pending]
     IN  /\ fx' = c.fx
         /\ pending' = Orphaned(c.pending)
  /\ phase' = "unmounted"
  /\ UNCHANGED <<variant, reactVars, viewport, containerRef, effectPending, groups,
                 lastEvent, fieldVars>>

Next ==
  \/ useEffectMount
  \/ useEffectRerun
  \/ animate
  \/ setFrequency
  \/ setAmplitude
  \/ setNumSources
  \/ setAnimationSpeed
  \/ handleReset
  \/ toggleWandMode
  \/ toggleControls
  \/ resize
  \/ handlePointerMove
  \/ handlePointerLeave
  \/ handleTouchStart
  \/ handleTouchMove
  \/ handleTouchEnd
  \/ unmount
  \/ cleanup

Spec == Init /\ [][Next]_vars

\* ------------------------------------------------------------------------
\* One effect instance whose frame loop keeps running: no dependency of line
\* 424 changes and the component stays mounted.  The browser runs a requested
\* frame callback at the next display refresh, hence the weak fairness.

animateLoop ==
  /\ fx.status = "live"
  /\ fx.frames < MaxLoopFrames
  /\ \E c \in pending :
       /\ c.owner = "live"
       /\ LET r == AnimateFrame(fx, groups, pending \ {c})
          IN  /\ fx' = r.fx
              /\ groups' = r.groups
              /\ pending' = r.pending
  /\ UNCHANGED <<variant, reactVars, viewport, containerRef, phase, effectPending,
                 lastEvent, fieldVars>>

NextLoop ==
  \/ useEffectMount
  \/ animateLoop
  \/ resize
  \/ toggleControls

SpecLoop == Init /\ [][NextLoop]_vars /\ WF_vars(animateLoop)

\* ------------------------------------------------------------------------
\* The pure functions on bounded inputs

\* largest resolution tried (the frame loop passes 32)
MaxRes == 3

\* pointer sources tried: none, one near the centre, one near a corner
PointerChoices ==
  { {},
    {[position |-> <<-1500, 0, 750>>, frequency |-> 350, amplitude |-> 50, phase |-> 0]},
    {[position |-> <<2900, 0, -2900>>, frequency |-> 200, amplitude |-> 20, phase |-> 0]} }

\* elapsed times tried, in 1/10000
Times == {6, 3306}

\* heights tried for the grids given directly, in 1/1000
HeightValues == {-208, 0, 100, 200, 201, 300}
BaseValues == {0, 100}

\* a grid that is base everywhere but at the nodes n1 and n2
GridOf(resolution, base, n1, v1, n2, v2) ==
  [ i \in 0..resolution |->
      [ j \in 0..resolution |->
          IF <<i, j>> = n1 THEN v1 ELSE IF <<i, j>> = n2 THEN v2 ELSE base ] ]

Nodes(resolution) == (0..resolution) \X (0..resolution)

\* pointer sources tried with the grids given directly: none, the one near
\* the centre
GridPointerChoices == { m \in PointerChoices : \A s \in m : s.position[1] < 0 }

SourceInputs ==
  [ kind : {"sources"},
    numSources : 2..12,
    frequency : {DEFAULT_FREQUENCY},
    amplitude : {DEFAULT_AMPLITUDE},
    mouseSource : PointerChoices,
    time : Times,
    layer : {1, 2},
    resolution : 1..MaxRes,
    grid : {<< >>} ]

GridInputs ==
  UNION { [ kind : {"grid"},
            numSources : {DEFAULT_NUM_SOURCES},
            frequency : {DEFAULT_FREQUENCY},
            amplitude : {DEFAULT_AMPLITUDE},
            mouseSource : GridPointerChoices,
            time : {0},
            layer : {1},
            resolution : {r},
            grid : { GridOf(r, b, n1, v1, n2, v2) :
                       b \in BaseValues, n1 \in Nodes(r), v1 \in HeightValues,
                       n2 \in Nodes(r), v2 \in HeightValues } ] : r \in 1..MaxRes }

\* the life of the component is not run in this specification
LifeIdle ==
  /\ variant = "full"
  /\ frequency = DEFAULT_FREQUENCY
  /\ amplitude = DEFAULT_AMPLITUDE
  /\ numSources = DEFAULT_NUM_SOURCES
  /\ animationSpeed = DEFAULT_ANIMATION_SPEED
  /\ mouseSource = {}
  /\ wandMode = FALSE
  /\ sparklePos = {}
  /\ controlsCollapsed = FALSE
  /\ viewport = CHOOSE vp \in Viewports : vp.innerWidth = 1000
  /\ containerRef = FALSE
  /\ phase = "idle"
  /\ effectPending = FALSE
  /\ fx = NoEffect
  /\ groups = << >>
  /\ pending = {}
  /\ lastEvent = "none"

InitField ==
  /\ LifeIdle
  /\ fpc = "input"
  /\ fin \in SourceInputs \cup GridInputs
  /\ sources = << >>
  /\ heightMap = << >>
  /\ lines = << >>
  /\ parts = << >>

\* the closure createWaveSources reads, from the inputs
FieldCfg ==
  [ frequency |-> fin.frequency, amplitude |-> fin.amplitude, numSources |-> fin.numSources,
    animationSpeed |-> DEFAULT_ANIMATION_SPEED, mouseSource |-> fin.mouseSource,
    wandMode |-> FALSE ]

\* createInterferenceField: the height grid and the lines of the group
createInterferenceField(srcs, mouse, size, resolution, time) ==
  LET hm == HeightMapOf(srcs, size, resolution, time)
  IN  [ heightMap |-> hm, lines |-> FieldLines(hm, mouse, size, resolution) ]

\* createWaveSources(time, scale) is applied to the inputs
applyCreateWaveSources ==
  /\ fpc = "input"
  /\ fin.kind = "sources"
  /\ sources' = createWaveSources(FieldCfg, fin.time, Layers[fin.layer].scale)
  /\ fpc' = "sources"
  /\ UNCHANGED <<lifeVars, fin, heightMap, lines, parts>>

\* createInterferenceField(sources, size, resolution, time) is applied
applyCreateInterferenceField ==
  /\ fpc = "sources"
  /\ LET r == createInterferenceField(sources, fin.mouseSource, Layers[fin.layer].size,
                                      fin.resolution, fin.time)
     IN  /\ heightMap' = r.heightMap
         /\ lines' = r.lines
  /\ fpc' = "field"
  /\ UNCHANGED <<lifeVars, fin, sources, parts>>

\* createInterferenceField is applied to the list, to its first k sources and
\* to the rest
applySplit ==
  /\ fpc = "sources"
  /\ \E k \in 0..Len(sources) :
       LET size == Layers[fin.layer].size
           s1 == SubSeq(sources, 1, k)
           s2 == SubSeq(sources, k + 1, Len(sources))
       IN  /\ heightMap' = HeightMapOf(sources, size, fin.resolution, fin.time)
           /\ parts' = [ s1 |-> s1, s2 |-> s2,
                         first |-> HeightMapOf(s1, size, fin.resolution, fin.time),
                         second |-> HeightMapOf(s2, size, fin.resolution, fin.time) ]
  /\ fpc' = "parts"
  /\ UNCHANGED <<lifeVars, fin, sources, lines>>

\* the lines of createInterferenceField (lines 169-241) for a given height grid
applyFieldLines ==
  /\ fpc = "input"
  /\ fin.kind = "grid"
  /\ heightMap' = fin.grid
  /\ lines' = FieldLines(fin.grid, fin.mouseSource, Layers[fin.layer].size, fin.resolution)
  /\ fpc' = "lines"
  /\ UNCHANGED <<lifeVars, fin, sources, parts>>

NextField ==
  \/ applyCreateWaveSources
  \/ applyCreateInterferenceField
  \/ applySplit
  \/ applyFieldLines

SpecField == InitField /\ [][NextField]_vars

\* ------------------------------------------------------------------------
\* Properties of the frame loop and of the effect's life (Spec)

Range(seq) == { seq[k] : k \in 1..Len(seq) }

\* the LineGroups in mainGroup
InScene == Range(fx.children)

\* C1: when a frame has been submitted to the renderer, mainGroup holds
\* exactly 3 LineGroups, the three built in that frame, and none built in an
\* earlier frame.
C1_ThreeGroupsOfThisFrame ==
  (fx.status = "live" /\ fx.frames >= 1) =>
    /\ Len(fx.children) = 3
    /\ \A g \in InScene : groups[g].frame = fx.frames

\* C2: in every frame after the first, each LineGroup the previous frame
\* added has its geometries and materials disposed and is out of mainGroup
\* before the frame builds its first new LineGroup.
C2_PreviousFrameReleasedFirst ==
  (fx.status = "live" /\ fx.frames >= 2) =>
    \A g \in 1..Len(groups) :
      groups[g].frame = fx.frames - 1 =>
        /\ groups[g].geometryDisposed
        /\ groups[g].materialDisposed
        /\ g \notin Range(fx.staleAtBuild)

\* C3: after the cleanup at unmount the renderer is disposed and no
\* LineGroup that was still in the scene keeps an undisposed geometry or
\* material.
C3_TeardownReleasesAll ==
  (phase = "unmounted" /\ fx.status = "cleaned") =>
    /\ fx.rendererDisposed
    /\ \A g \in InScene : groups[g].geometryDisposed /\ groups[g].materialDisposed

\* C4: once the cleanup of an effect instance has run, no frame callback of
\* that instance is left to run: while the instance runs, the one callback
\* pending is the one whose handle animationFrameId holds, and the cleanup
\* cancels it.
C4_CleanupCancelsThePendingFrame ==
  /\ \A c \in pending : c.owner = "live"
  /\ fx.status = "live" => pending = {[id |-> fx.animationFrameId, owner |-> "live"]}
  /\ fx.status # "live" => pending = {}

\* C4 witness: an instance that was re-run after events and had run frames
\* has been cleaned up
C4_Witness ==
  /\ phase = "unmounted"
  /\ fx.status = "cleaned"
  /\ fx.run >= 2
  /\ fx.frames >= 2
  /\ fx.animationFrameId = fx.frames

\* C5: handleReset sets frequency 2.5, amplitude 0.4, numSources 5 and
\* animationSpeed 0.0006 and leaves the pointer source, wand mode and the
\* controls-collapsed flag as they are.
C5_ResetRestoresDefaults ==
  [][ handleReset =>
        /\ frequency' = 250
        /\ amplitude' = 40
        /\ numSources' = 5
        /\ animationSpeed' = 6
        /\ mouseSource' = mouseSource
        /\ wandMode' = wandMode
        /\ controlsCollapsed' = controlsCollapsed ]_vars

\* C5 witness: the running instance was started with two sliders off their
\* defaults and a pointer source, and the state is back at the defaults with
\* the pointer source kept: only handleReset changes two sliders at once
C5_Witness ==
  /\ effectPending
  /\ fx.status = "live"
  /\ fx.cfg.frequency # 250
  /\ fx.cfg.amplitude # 40
  /\ <<frequency, amplitude, numSources, animationSpeed>> = <<250, 40, 5, 6>>
  /\ mouseSource = fx.cfg.mouseSource

\* C9: a resize sets the camera aspect to width / height and the renderer
\* size to the new surface, and leaves the elapsed time, the configuration,
\* the pointer source and the LineGroups of the scene as they are; with the
\* container absent it changes nothing.
C9_ResizeOnlyTouchesCameraAndRenderer ==
  [][ resize =>
        /\ UNCHANGED <<frequency, amplitude, numSources, animationSpeed, mouseSource,
                       groups, pending>>
        /\ fx'.time = fx.time
        /\ fx'.children = fx.children
        /\ fx'.cfg = fx.cfg
        /\ (fx.status = "live" /\ containerRef) =>
             /\ fx'.aspect[1] * viewport'.height = fx'.aspect[2] * viewport'.width
             /\ fx'.size = <<viewport'.width, viewport'.height>>
        /\ ~containerRef => (fx' = fx /\ UNCHANGED reactVars) ]_vars

\* C9 witness: handleResize has resized the renderer of an instance that had
\* run frames and has a pointer source; later, while unmounting (container
\* absent), the surface changed again and the renderer kept its size
C9_Witness ==
  /\ phase = "unmounting"
  /\ fx.status = "live"
  /\ fx.resized
  /\ fx.frames >= 2
  /\ fx.cfg.mouseSource # {}
  /\ fx.size # <<viewport.width, viewport.height>>

\* ------------------------------------------------------------------------
\* Properties of the pure functions (SpecField)

\* C6: for numSources n in 2..12 createWaveSources returns n + 1 sources
\* without a pointer source and n + 2 with one: the n ring sources by
\* increasing i at angle 2*pi*i/n, then the centre source at the origin, then
\* the pointer source last.
C6_SourceListShape ==
  fpc = "sources" =>
    LET n == fin.numSources
        active == fin.mouseSource # {}
    IN  /\ n \in 2..12
        /\ Len(sources) = IF active THEN n + 2 ELSE n + 1
        /\ \A i \in 0..(n - 1) :
             LET theta == (i * TWO_PI) \div n
                 s == sources[i + 1]
             IN  /\ s.phase - (fin.time * 3) \div 10 = theta
                 /\ s.position # <<0, 0, 0>>
                 /\ s.position[1] * Cos(theta) >= 0
                 /\ s.position[3] * Sin(theta) >= 0
        /\ sources[n + 1].position = <<0, 0, 0>>
        /\ sources[n + 1].frequency = fin.frequency + 100
        /\ sources[n + 1].phase = (fin.time * 4) \div 10
        /\ active => sources[n + 2] \in fin.mouseSource

\* C6 witness: twelve ring sources, the centre and an active pointer source
C6_Witness ==
  /\ fpc = "sources"
  /\ fin.numSources = 12
  /\ fin.mouseSource # {}
  /\ Len(sources) = 14

\* the test of the claims on a node: |h - mean of the 4 neighbours| > 0.2,
\* with the sum and the difference rounded as the numbers of the program are
Deviates(hm, i, j) ==
  LET sum == Fl(Fl(Fl(hm[i - 1][j] + hm[i + 1][j]) + hm[i][j - 1]) + hm[i][j + 1])
  IN  Abs(Fl(4 * hm[i][j] - sum)) > 800

Inner(n, r) == n[1] \in 1..(r - 1) /\ n[2] \in 1..(r - 1)

TearCells(hm, r) == { n \in Nodes(r) : Inner(n, r) /\ Deviates(hm, n[1], n[2]) }

LinesOfKind(kind) == { k \in 1..Len(lines) : lines[k].kind = kind }

MeshBuilt == fpc \in {"field", "lines"}

\* C7: for a resolution r >= 1 and any height grid the LineGroup has r + 1
\* row lines and r + 1 column lines of r + 1 points each, and 2*(r+1) plus
\* twice the number of tear cells lines in all.
C7_LineCounts ==
  MeshBuilt =>
    LET r == fin.resolution
    IN  /\ { lines[k].i : k \in LinesOfKind("row") } = 0..r
        /\ Cardinality(LinesOfKind("row")) = r + 1
        /\ { lines[k].j : k \in LinesOfKind("column") } = 0..r
        /\ Cardinality(LinesOfKind("column")) = r + 1
        /\ \A k \in LinesOfKind("row") \cup LinesOfKind("column") :
             Len(lines[k].points) = r + 1
        /\ Len(lines) = 2 * (r + 1) + 2 * Cardinality(TearCells(heightMap, r))

\* C7 witness: a grid of the largest resolution with tear cells
C7_Witness ==
  /\ MeshBuilt
  /\ fin.resolution = MaxRes
  /\ Cardinality(TearCells(heightMap, fin.resolution)) >= 2
  /\ Len(lines) >= 2 * (MaxRes + 1) + 4

TearsAt(n) == { k \in LinesOfKind("tear") : lines[k].i = n[1] /\ lines[k].j = n[2] }

Flat(hm, r) == \A n \in Nodes(r) : hm[n[1]][n[2]] = hm[0][0]

\* C8: a node yields tear segments iff it is an inner node (1 <= i, j <
\* resolution) whose height differs from the mean of its 4 neighbours by
\* strictly more than 0.2; it then yields exactly two diagonal segments;
\* nodes of the boundary yield none and a grid of equal heights yields none.
C8_TearsExactlyAtSharpInnerNodes ==
  MeshBuilt =>
    LET r == fin.resolution
    IN  /\ \A n \in Nodes(r) :
             IF n \in TearCells(heightMap, r)
             THEN /\ Cardinality(TearsAt(n)) = 2
                  /\ Cardinality({ lines[k].points : k \in TearsAt(n) }) = 2
                  /\ \A k \in TearsAt(n) :
                       /\ Len(lines[k].points) = 2
                       /\ \A q \in 1..2 : lines[k].points[q][2] = heightMap[n[1]][n[2]]
             ELSE TearsAt(n) = {}
        /\ \A k \in LinesOfKind("tear") : Inner(<<lines[k].i, lines[k].j>>, r)
        /\ Flat(heightMap, r) => LinesOfKind("tear") = {}

\* C8 witness: one inner node just over the threshold with its two
\* segments, next to an inner node exactly at the threshold with none
C8_Witness ==
  /\ fpc = "lines"
  /\ fin.resolution = MaxRes
  /\ \E n \in Nodes(MaxRes), m \in Nodes(MaxRes) :
       /\ Cardinality(TearsAt(n)) = 2
       /\ Inner(m, MaxRes)
       /\ TearsAt(m) = {}
       /\ LET sum == heightMap[m[1] - 1][m[2]] + heightMap[m[1] + 1][m[2]]
                       + heightMap[m[1]][m[2] - 1] + heightMap[m[1]][m[2] + 1]
          IN  Abs(4 * heightMap[m[1]][m[2]] - sum) = 800

\* the spacing of the floating-point numbers at the size of v
Ulp(v) == Pow2(BitLength(Abs(v)) - MantissaBits)

RECURSIVE SumAbsTerms(_, _, _, _)
SumAbsTerms(srcs, x, z, time) ==
  IF srcs = << >> THEN 0
  ELSE Abs(Term(Head(srcs), x, z, time)) + SumAbsTerms(Tail(srcs), x, z, time)

SplitSize == Layers[fin.layer].size

\* C10 as stated: the grid of the concatenation S1 S2 is, node by node, the
\* sum of the grid of S1 and the grid of S2.
C10_ExactSuperposition ==
  fpc = "parts" =>
    \A n \in Nodes(fin.resolution) :
      heightMap[n[1]][n[2]] = FAdd(parts.first[n[1]][n[2]], parts.second[n[1]][n[2]])

\* C10 amended: the grid of the concatenation differs from the node-by-node
\* sum by no more than the rounding of the additions (one unit in the last
\* place of the largest partial sum per source), and is equal to it when S2
\* holds at most one source or S1 is empty; the grid of the empty list is
\* all zero.
C10_SuperpositionUpToRounding ==
  fpc = "parts" =>
    \A n \in Nodes(fin.resolution) :
      LET whole == heightMap[n[1]][n[2]]
          a == parts.first[n[1]][n[2]]
          b == parts.second[n[1]][n[2]]
          x == Coord(n[1], SplitSize, fin.resolution)
          z == Coord(n[2], SplitSize, fin.resolution)
          all == parts.s1 \o parts.s2
      IN  /\ Abs(whole - (a + b)) <= Len(all) * Ulp(2 * SumAbsTerms(all, x, z, fin.time))
          /\ (Len(parts.s2) <= 1 \/ parts.s1 = << >>) => whole = FAdd(a, b)
          /\ parts.s1 = << >> => a = 0
          /\ parts.s2 = << >> => b = 0

\* C10 witness: both parts hold several sources, the heights are not all
\* zero and at some node the rounding makes the two sides differ
C10_Witness ==
  /\ fpc = "parts"
  /\ Len(parts.s1) >= 2
  /\ Len(parts.s2) >= 2
  /\ \E n \in Nodes(fin.resolution) :
       /\ parts.first[n[1]][n[2]] # 0
       /\ parts.second[n[1]][n[2]] # 0
       /\ heightMap[n[1]][n[2]] # FAdd(parts.first[n[1]][n[2]], parts.second[n[1]][n[2]])

\* ------------------------------------------------------------------------
\* Properties of the event handlers and of the clock (Spec)

SettingEvents == {"pointermove", "touchstart", "touchmove"}
ClearingEvents == {"pointerleave", "touchend"}
EmptyTouchEvents == {"touchstart0", "touchmove0"}

\* C11: on a mounted container the pointer source is active after a
\* pointermove and after a touchstart / touchmove with at least one touch, it
\* is null after a pointerleave or a touchend (and before any event), and a
\* touchstart / touchmove with no touch leaves it as it was; so it is active
\* iff the most recent event that was not an empty touch event was a setting
\* one.
C11_PointerSourceFollowsLastEvent ==
  /\ [](/\ lastEvent \in SettingEvents => mouseSource # {}
        /\ lastEvent \in ClearingEvents \cup {"none"} => mouseSource = {})
  /\ [][ lastEvent' \in EmptyTouchEvents => mouseSource' = mouseSource ]_vars

\* C11 witness: a touch event with no touch came after a setting event and
\* the pointer source is still active, in an instance that was started with
\* that pointer source
C11_Witness ==
  /\ lastEvent \in EmptyTouchEvents
  /\ mouseSource # {}
  /\ fx.status = "live"
  /\ fx.cfg.mouseSource = mouseSource

\* a step that renders a frame: the animate() call of an effect body or a
\* frame callback
RendersFrame == fx'.frames >= 1 /\ <<fx'.run, fx'.frames>> # <<fx.run, fx.frames>>

\* C12: while the component stays mounted, from one rendered frame to the
\* next the elapsed time does not decrease and grows by the animation speed
\* the frame reads; pointer moves, slider changes, reset and wand toggles do
\* not restart the clock.
C12_ClockNeverRestarts ==
  [][ (RendersFrame /\ fx.frames >= 1 /\ phase = "mounted" /\ phase' = "mounted") =>
        /\ fx'.time >= fx.time
        /\ fx'.time = fx.time + (IF variant = "full" THEN fx'.cfg.animationSpeed
                                                     ELSE DEFAULT_ANIMATION_SPEED) ]_vars

\* C13: in the full variant the pointer source appended to a frame's source
\* list has the frequency of the configuration the frame reads + 1, its
\* amplitude + 0.1 and phase 0, after any pointer moves, slider changes and
\* resets.
C13_PointerSourceTracksConfig ==
  (variant = "full" /\ fx.status = "live") =>
    \A g \in 1..Len(groups) : \A s \in groups[g].pointer :
      /\ s.frequency = fx.cfg.frequency + 100
      /\ s.amplitude = fx.cfg.amplitude + 10
      /\ s.phase = 0

\* C14: toggling wand mode has no effect on the field computation: the
\* running effect instance (scene, renderer, clock), its LineGroups and its
\* frame callback stay as they are and no re-run of the effect is scheduled.
C14_WandToggleLeavesTheField ==
  [][ toggleWandMode => UNCHANGED <<effectPending, fx, groups, pending>> ]_vars

\* C15: at every moment at most one frame callback of animate is pending
\* and at most one renderer canvas is in the container, whatever the
\* interleaving of frames, events, configuration changes and effect
\* cleanups and re-runs.
C15_OneCallbackOneCanvas ==
  /\ Cardinality(pending) <= 1
  /\ fx.canvases <= 1
  /\ fx.status = "live" => (Cardinality(pending) = 1 /\ fx.canvases = 1)

\* C15 witness: the third effect instance, started after events and
\* configuration changes, has run frames and was resized
C15_Witness ==
  /\ fx.status = "live"
  /\ fx.run = MaxEffects
  /\ fx.frames >= 2
  /\ fx.resized
  /\ fx.cfg.mouseSource # {}
  /\ fx.cfg.numSources # DEFAULT_NUM_SOURCES
  /\ Cardinality(pending) = 1
  /\ fx.canvases = 1

\* ------------------------------------------------------------------------
\* Properties of a frame loop that keeps running (SpecLoop)

\* the LineGroups built in the frames that are followed by three more
GroupsWithThreeFramesAhead == 1..(3 * (MaxLoopFrames - 3))

Released(g) ==
  /\ g \in 1..Len(groups)
  /\ g \notin InScene
  /\ groups[g].geometryDisposed
  /\ groups[g].materialDisposed

\* C16: while the frame loop of an effect instance keeps running, every
\* LineGroup added to mainGroup is eventually removed from it with its
\* geometries and materials disposed (a group stays for at most three
\* frames), and mainGroup never holds more than 5 LineGroups, none built
\* more than two frames before the last one.
C16_GroupsReleasedAndBounded ==
  /\ [](Len(fx.children) <= 5)
  /\ [](\A g \in InScene : groups[g].frame >= fx.frames - 2)
  /\ [](\A g \in 1..Len(groups) : g \notin InScene => Released(g))
  /\ \A g \in GroupsWithThreeFramesAhead : (g \in InScene) ~> Released(g)

\* C16 witness: after the last frame of the loop mainGroup holds 5
\* LineGroups, two of them built in earlier frames, and a group that had
\* stayed past the frame after its own has been released
C16_Witness ==
  /\ fx.frames = MaxLoopFrames
  /\ Len(fx.children) = 5
  /\ Cardinality({ g \in InScene : groups[g].frame < fx.frames }) = 2
  /\ \E g \in 1..Len(groups) :
       /\ groups[g].layer = 2
       /\ groups[g].frame = MaxLoopFrames - 3
       /\ Released(g)

\* ------------------------------------------------------------------------
\* Properties of the highlight (SpecField)

Highlighted(k) == lines[k].material = "mouseMaterial"

\* sqrt((x - mx)^2 + (z - mz)^2) < 1.5 * step for the active pointer source
NearPointer(x, z) ==
  \E m \in fin.mouseSource :
    LET dx == x - m.position[1]
        dz == z - m.position[3]
    IN  2 * Sqrt(dx * dx + dz * dz) < 3 * (Layers[fin.layer].size \div fin.resolution)

\* the centre of a two-point segment
MidPoint(pts) == << (pts[1][1] + pts[2][1]) \div 2, (pts[1][3] + pts[2][3]) \div 2 >>

\* C17: a row line at fixed x is highlighted iff a pointer source (mx, mz)
\* is active and sqrt((x-mx)^2 + mz^2) < 1.5*step, a column line at fixed z
\* iff sqrt(mx^2 + (z-mz)^2) < 1.5*step, a tear segment centred at (x, z) iff
\* sqrt((x-mx)^2 + (z-mz)^2) < 1.5*step; with no pointer source no line is
\* highlighted.
C17_HighlightNearPointer ==
  MeshBuilt =>
    /\ \A k \in LinesOfKind("row") :
         Highlighted(k) <=> NearPointer(lines[k].points[1][1], 0)
    /\ \A k \in LinesOfKind("column") :
         Highlighted(k) <=> NearPointer(0, lines[k].points[1][3])
    /\ \A k \in LinesOfKind("tear") :
         Highlighted(k) <=> NearPointer(MidPoint(lines[k].points)[1], MidPoint(lines[k].points)[2])
    /\ \A k \in 1..Len(lines) : lines[k].material \in {"mouseMaterial", "linesMaterial"}
    /\ fin.mouseSource = {} => \A k \in 1..Len(lines) : ~Highlighted(k)

\* C17 witness: with an active pointer source, rows, columns and tear
\* segments of both materials in one LineGroup
C17_Witness ==
  /\ MeshBuilt
  /\ fin.mouseSource # {}
  /\ \A kind \in {"row", "column", "tear"} :
       /\ \E k \in LinesOfKind(kind) : Highlighted(k)
       /\ \E k \in LinesOfKind(kind) : ~Highlighted(k)

====
